---------------------------- MODULE Spec2Model ----------------------------
(***************************************************************************)
(* The recipe catalogue of src/app: the relational store behind the        *)
(* routers of api/recipes.py, api/ingredients.py and api/allergens.py, the *)
(* ORM mapping of models/*.py that decides what a flush writes, and the    *)
(* handlers themselves, one action per handler.                            *)
(*                                                                         *)
(* A table is the set of its committed rows, a row a record.  Optional     *)
(* values are sequences of length at most one: <<>> is None, <<v>> is v.   *)
(***************************************************************************)
EXTENDS Integers, Sequences, FiniteSets, TLC

\* ------------------------------------------------------------------ bounds

\* The highest id a table's sequence hands out, and the highest id a request names.
MaxId == 2
\* The longest allergen_ids or ingredients list of a request.
MaxLen == 2

Ids == 1..MaxId

\* Names of the simple entities that requests carry.
IngredientNames == {"Tomato", "Basil"}
CuisineNames == {"Italian"}
AllergenNames == {"Gluten", "Soy"}
\* Rows of the allergens table that were loaded outside the API: no handler of
\* api/allergens.py can insert one (see AllergenStore).
SeedAllergens == {[id |-> 1, name |-> "Gluten"]}

None == <<>>
Some(v) == <<v>>

VARIABLES
    cuisines,            \* table cuisines: rows [id, name]
    allergens,           \* table allergens: rows [id, name]
    ingredients,         \* table ingredients: rows [id, name]
    recipes,             \* table recipes: rows [id, title, ..., cuisine_id]
    recipe_allergens,    \* table recipe_allergens: rows [recipe_id, allergen_id]
    recipe_ingredients,  \* table recipe_ingredients: rows [id, recipe_id, ingredient_id, quantity, measurement]
    fkEnforced,          \* whether the backing store checks FOREIGN KEY constraints
    tx,                  \* the Recipe create request in flight (ConcSpec), its session's pending state
    recipes_db,          \* main.py's in-memory store: a dict from id to Recipe
    recipe_counter,      \* main.py's counter of the ids given out
    req,                 \* the request handled last: its operation, and the path id and body the properties read
    resp                 \* the response to it

tables == <<cuisines, allergens, ingredients, recipes, recipe_allergens, recipe_ingredients>>
\* The module-level state of main.py.
mem == <<recipes_db, recipe_counter>>
vars == <<cuisines, allergens, ingredients, recipes, recipe_allergens, recipe_ingredients,
          fkEnforced, tx, recipes_db, recipe_counter, req, resp>>

IdsOf(table) == {row.id : row \in table}
Max(S) == CHOOSE x \in S : \A y \in S : y <= x
\* The id an INSERT gives a row of an integer primary key: one more than the
\* highest id of the table.
NextId(table) == IF table = {} THEN 1 ELSE Max(IdsOf(table)) + 1
Row(table, id) == CHOOSE row \in table : row.id = id

\* An HTTP response: the status, the error detail ("" for none), the body (None for none).
Response(status, detail, body) == [status |-> status, detail |-> detail, body |-> body]
HTTPException(status, detail) == Response(status, detail, None)
\* An exception no handler catches: the framework answers 500 and the session,
\* closed without commit, rolls back.
ServerError(detail) == Response(500, detail, None)

NoTx == [pc |-> "idle"]

\* The database the application starts on: only the allergens, or a cuisine and
\* a recipe of it linked to the allergen as well.
SeedDatabases ==
    {[cuisines |-> {}, recipes |-> {}, recipe_allergens |-> {}],
     [cuisines |-> {[id |-> 1, name |-> "Italian"]},
      recipes |-> {[id |-> 1, title |-> "abc", description |-> "d",
                    instructions |-> "Boil water", cooking_time |-> 20, difficulty |-> 1,
                    cuisine_id |-> 1]},
      recipe_allergens |-> {[recipe_id |-> 1, allergen_id |-> 1]}]}

Init ==
    /\ \E db \in SeedDatabases :
          /\ cuisines = db.cuisines
          /\ recipes = db.recipes
          /\ recipe_allergens = db.recipe_allergens
    /\ allergens = SeedAllergens
    /\ ingredients = {}
    /\ recipe_ingredients = {}
    /\ fkEnforced \in BOOLEAN
    /\ tx = NoTx
    /\ recipes_db = <<>>
    /\ recipe_counter = 0
    /\ req = [op |-> "none"]
    /\ resp = Response(0, "", None)

\* ------------------------------------------------- simple entities: schemas

\* IngredientRead / AllergenRead / CuisineRead: the columns id and name.
EntityRead(row) == [id |-> row.id, name |-> row.name]

\* A column without the constraint: any names commit.
AnyNames(table) == TRUE

\* name is unique=True: a commit that would leave two rows with one name fails.
UniqueNames(table) == \A a, b \in table : a.name = b.name => a.id = b.id

\* ------------------------------------------------------------- ingredients

\* A mapping whose flush never refuses the delete of an ingredient.
IngredientDeleteUnguarded(id) == FALSE

\* The unit of work's flush of session.delete(ingredient): the relationship
\* Ingredient.recipe_ingredients has no delete cascade, so the rows that reference
\* the ingredient are first de-associated (ingredient_id set to NULL), which the
\* NOT NULL column recipe_ingredients.ingredient_id refuses.
IngredientDeleteBlocked(id) == \E ri \in recipe_ingredients : ri.ingredient_id = id

IngredientStore(name) ==
    /\ NextId(ingredients) <= MaxId
    /\ req' = [op |-> "ingredients.store", name |-> name]
    /\ LET row == [id |-> NextId(ingredients), name |-> name]
       IN  IF UniqueNames(ingredients \cup {row})
           THEN /\ ingredients' = ingredients \cup {row}
                /\ resp' = Response(201, "", Some(EntityRead(row)))
           ELSE /\ resp' = ServerError("IntegrityError")
                /\ UNCHANGED ingredients
    /\ UNCHANGED <<cuisines, allergens, recipes, recipe_allergens, recipe_ingredients,
                   fkEnforced, tx, mem>>

\* GET /ingredients/{id}
IngredientShow(id) ==
    /\ req' = [op |-> "ingredients.show", id |-> id]
    /\ resp' = IF id \notin IdsOf(ingredients)
               THEN HTTPException(404, "Ingredient not found")
               ELSE Response(200, "", Some(EntityRead(Row(ingredients, id))))
    /\ UNCHANGED <<tables, fkEnforced, tx, mem>>

IngredientUpdate(id, name) ==
    /\ req' = [op |-> "ingredients.update", id |-> id, name |-> name]
    /\ IF id \notin IdsOf(ingredients)
       THEN /\ resp' = HTTPException(404, "Ingredient not found")
            /\ UNCHANGED ingredients
       ELSE LET row == [id |-> id, name |-> name]
                after == (ingredients \ {Row(ingredients, id)}) \cup {row}
            IN  IF UniqueNames(after)
                THEN /\ ingredients' = after
                     /\ resp' = Response(200, "", Some(EntityRead(row)))
                ELSE /\ resp' = ServerError("IntegrityError")
                     /\ UNCHANGED ingredients
    /\ UNCHANGED <<cuisines, allergens, recipes, recipe_allergens, recipe_ingredients,
                   fkEnforced, tx, mem>>

IngredientDestroy(id) ==
    /\ req' = [op |-> "ingredients.destroy", id |-> id]
    /\ IF id \notin IdsOf(ingredients)
       THEN /\ resp' = HTTPException(404, "Ingredient not found")
            /\ UNCHANGED ingredients
       ELSE IF IngredientDeleteBlocked(id)
            THEN /\ resp' = ServerError("IntegrityError")
                 /\ UNCHANGED ingredients
            ELSE /\ ingredients' = ingredients \ {Row(ingredients, id)}
                 /\ resp' = Response(204, "", None)
    /\ UNCHANGED <<cuisines, allergens, recipes, recipe_allergens, recipe_ingredients,
                   fkEnforced, tx, mem>>

\* --------------------------------------------------------------- allergens

\* Every handler of api/allergens.py but index assigns the local name Allergen,
\* so the class it reads first is an unbound local: UnboundLocalError, before the
\* session is used.
AllergenStore(name) ==
    /\ req' = [op |-> "allergens.store", name |-> name]
    /\ resp' = ServerError("UnboundLocalError")
    /\ UNCHANGED <<tables, fkEnforced, tx, mem>>

AllergenShow(id) ==
    /\ req' = [op |-> "allergens.show", id |-> id]
    /\ resp' = ServerError("UnboundLocalError")
    /\ UNCHANGED <<tables, fkEnforced, tx, mem>>

AllergenUpdate(id, name) ==
    /\ req' = [op |-> "allergens.update", id |-> id, name |-> name]
    /\ resp' = ServerError("UnboundLocalError")
    /\ UNCHANGED <<tables, fkEnforced, tx, mem>>

AllergenDestroy(id) ==
    /\ req' = [op |-> "allergens.destroy", id |-> id]
    /\ resp' = ServerError("UnboundLocalError")
    /\ UNCHANGED <<tables, fkEnforced, tx, mem>>

\* ---------------------------------------------------------------- cuisines
\* The repository's sources hold the Cuisine mapping (models/cuisine.py) and no
\* cuisines router: the three handlers follow the specification's simple-entity
\* service (create: Conflict on a taken name; update and delete: NotFound on an
\* absent id, no check of the recipes that reference the row), run against the
\* mapping of the sources.

\* The flush of session.delete(cuisine): Cuisine.recipes has no delete cascade, so
\* the recipes of the cuisine are de-associated first (cuisine_id set to NULL),
\* which the NOT NULL column recipes.cuisine_id refuses.
CuisineDeleteBlocked(id) == \E r \in recipes : r.cuisine_id = id

CuisineStore(name) ==
    /\ NextId(cuisines) <= MaxId
    /\ req' = [op |-> "cuisines.store"]
    /\ LET row == [id |-> NextId(cuisines), name |-> name]
       IN  IF UniqueNames(cuisines \cup {row})
           THEN /\ cuisines' = cuisines \cup {row}
                /\ resp' = Response(201, "", Some(EntityRead(row)))
           ELSE /\ resp' = HTTPException(409, "Conflict")
                /\ UNCHANGED cuisines
    /\ UNCHANGED <<allergens, ingredients, recipes, recipe_allergens, recipe_ingredients,
                   fkEnforced, tx, mem>>

CuisineUpdate(id, name) ==
    /\ req' = [op |-> "cuisines.update"]
    /\ IF id \notin IdsOf(cuisines)
       THEN /\ resp' = HTTPException(404, "Cuisine not found")
            /\ UNCHANGED cuisines
       ELSE LET row == [id |-> id, name |-> name]
                after == (cuisines \ {Row(cuisines, id)}) \cup {row}
            IN  IF UniqueNames(after)
                THEN /\ cuisines' = after
                     /\ resp' = Response(200, "", Some(EntityRead(row)))
                ELSE /\ resp' = ServerError("IntegrityError")
                     /\ UNCHANGED cuisines
    /\ UNCHANGED <<allergens, ingredients, recipes, recipe_allergens, recipe_ingredients,
                   fkEnforced, tx, mem>>

CuisineDestroy(id) ==
    /\ req' = [op |-> "cuisines.destroy"]
    /\ IF id \notin IdsOf(cuisines)
       THEN /\ resp' = HTTPException(404, "Cuisine not found")
            /\ UNCHANGED cuisines
       ELSE IF CuisineDeleteBlocked(id)
            THEN /\ resp' = ServerError("IntegrityError")
                 /\ UNCHANGED cuisines
            ELSE /\ cuisines' = cuisines \ {Row(cuisines, id)}
                 /\ resp' = Response(204, "", None)
    /\ UNCHANGED <<allergens, ingredients, recipes, recipe_allergens, recipe_ingredients,
                   fkEnforced, tx, mem>>

\* ----------------------------------------------------------------- recipes

\* The unit codes of MeasurementEnum (models/enums.py is not among the sources:
\* the closed set of the specification).
MeasurementEnum == {1, 2, 3}

\* Request bodies of POST /recipes.  The scalar fields vary one at a time around
\* a valid body, each to the edge of its constraint, in a body without links; the
\* cuisine and the two lists vary around the valid scalars.
BaseScalars ==
    [title |-> "abc", description |-> Some("d"), instructions |-> "Boil water",
     cooking_time |-> 20, difficulty |-> 1]
ValidScalars == {BaseScalars, [BaseScalars EXCEPT !.description = None]}
\* A title of 101 characters.
LongTitle ==
    "0123456789012345678901234567890123456789012345678901234567890123456789012345678901234567890123456789x"
InvalidScalars ==
    {[BaseScalars EXCEPT !.title = "ab"], [BaseScalars EXCEPT !.title = LongTitle],
     [BaseScalars EXCEPT !.difficulty = 0], [BaseScalars EXCEPT !.difficulty = 6],
     [BaseScalars EXCEPT !.cooking_time = 0],
     [BaseScalars EXCEPT !.instructions = "Boil wate"]}
\* The valid bodies at the other edge of a constraint than BaseScalars.
EdgeScalars == {[BaseScalars EXCEPT !.difficulty = 5]}

\* The id lists of a request: up to MaxLen ids in ascending order from id 1, so
\* the empty list, a list that repeats an id and lists of distinct ids of every
\* length are among them; which of the ids exist is up to the state.
IdLists ==
    {l \in UNION {[1..k -> Ids] : k \in 0..MaxLen} :
        /\ \A i \in 1..(Len(l) - 1) : l[i] <= l[i + 1]
        /\ l # <<>> => l[1] = 1}

\* The ingredients list of a request: one RecipeIngredientCreate per id.
Item(ingredient_id, measurement) ==
    [ingredient_id |-> ingredient_id, quantity |-> 2, measurement |-> measurement]
ItemsOf(l) == [i \in 1..Len(l) |-> Item(l[i], 1)]

RecipeBody(scalars, cuisine_id, allergen_ids, items) ==
    [title |-> scalars.title, description |-> scalars.description,
     instructions |-> scalars.instructions, cooking_time |-> scalars.cooking_time,
     difficulty |-> scalars.difficulty, cuisine_id |-> cuisine_id,
     allergen_ids |-> allergen_ids, ingredients |-> items]

StoreBodies ==
    {RecipeBody(BaseScalars, c, al, ItemsOf(l)) : c \in Ids, al \in IdLists, l \in IdLists}
    \cup {RecipeBody(s, 1, <<>>, <<>>) : s \in ValidScalars \cup InvalidScalars \cup EdgeScalars}
    \cup {RecipeBody(BaseScalars, 1, <<>>, <<Item(1, m)>>) : m \in {0, 4, 9}}

Range(s) == {s[i] : i \in 1..Len(s)}

\* A schema without the validator.
any_measurement(v) == TRUE

\* RecipeIngredientCreate.validate_measurement.
validate_measurement(v) == v \in MeasurementEnum

\* RecipeCreate: the Field constraints, checked before the handler runs (422).
RecipeCreate(body) ==
    /\ Len(body.title) >= 3 /\ Len(body.title) <= 100
    /\ body.description = None \/ Len(body.description[1]) <= 500
    /\ Len(body.instructions) >= 10
    /\ body.cooking_time > 0
    /\ body.difficulty >= 1 /\ body.difficulty <= 5
    /\ \A item \in Range(body.ingredients) : validate_measurement(item.measurement)

\* select(Allergen).where(Allergen.id.in_(allergen_ids)): the rows, each once.
SelectAllergens(table, allergen_ids) == {a \in table : a.id \in Range(allergen_ids)}
\* ingredient_ids = [item.ingredient_id for item in recipe_create.ingredients]
IngredientIdsOf(items) == [i \in 1..Len(items) |-> items[i].ingredient_id]
\* select(Ingredient).where(Ingredient.id.in_(ingredient_ids))
SelectIngredients(table, ingredient_ids) == {g \in table : g.id \in Range(ingredient_ids)}

\* Variants of the existence checks: the cuisine never looked up, and the
\* allergens refused only when none of the list is found.
CuisineUnchecked(body) == ""
AllergensAnyFound(body) ==
    IF body.allergen_ids # <<>> /\ SelectAllergens(allergens, body.allergen_ids) = {}
    THEN "One or more allergens not found" ELSE ""

\* The three existence checks of store: "" when they pass, else the 404's detail.
CuisineCheck(body) ==
    IF body.cuisine_id \in IdsOf(cuisines) THEN "" ELSE "Cuisine not found"
AllergensCheck(body) ==
    IF /\ body.allergen_ids # <<>>
       /\ Cardinality(SelectAllergens(allergens, body.allergen_ids)) # Len(body.allergen_ids)
    THEN "One or more allergens not found" ELSE ""
IngredientsCheck(body) ==
    IF Cardinality(SelectIngredients(ingredients, IngredientIdsOf(body.ingredients)))
           # Len(body.ingredients)
    THEN "One or more ingredients not found" ELSE ""

\* Recipe(...): the attributes of the new object, each a value or None; the
\* flush's INSERT assigns the id.
NewRecipe(id, body) ==
    [id |-> Some(id), title |-> Some(body.title), description |-> body.description,
     instructions |-> Some(body.instructions), cooking_time |-> Some(body.cooking_time),
     difficulty |-> Some(body.difficulty), cuisine_id |-> Some(body.cuisine_id)]
\* Mapped[str] / Mapped[int] columns are NOT NULL.
NotNull(attrs) == \A f \in DOMAIN attrs : attrs[f] # None
\* The row an INSERT or UPDATE writes from the attributes.
Flushed(attrs) == [f \in DOMAIN attrs |-> attrs[f][1]]

\* if allergens: recipe.allergens.extend(allergens).  The recipe was flushed, so
\* its allergens collection is unloaded and reading it is a lazy load: a query
\* the AsyncSession cannot run outside an await (MissingGreenlet).
ExtendAllergens(loaded) == IF loaded # {} THEN "MissingGreenlet" ELSE ""

\* The rows of the secondary table the extended collection flushes: one per
\* loaded allergen.
NewAllergenLinks(recipe_id, loaded) ==
    {[recipe_id |-> recipe_id, allergen_id |-> a.id] : a \in loaded}
\* A create that adds no RecipeIngredient to the session.
NoRecipeIngredients(recipe_id, items, lastId) == {}

\* One RecipeIngredient per entry of the list, ids in the order of the list.
NewRecipeIngredients(recipe_id, items, lastId) ==
    {[id |-> lastId + i, recipe_id |-> recipe_id, ingredient_id |-> items[i].ingredient_id,
      quantity |-> items[i].quantity, measurement |-> items[i].measurement] :
        i \in 1..Len(items)}

\* The foreign keys of the rows a flush inserts, checked by a store that enforces them.
ForeignKeysResolve(rs, links, ris) ==
    /\ \A r \in rs : r.cuisine_id \in IdsOf(cuisines)
    /\ \A l \in links : l.allergen_id \in IdsOf(allergens)
    /\ \A ri \in ris : ri.ingredient_id \in IdsOf(ingredients)

\* The Recipe loaded with selectinload(cuisine, allergens, recipe_ingredients):
\* the columns and the three relationship attributes of models/recipe.py.
LoadRecipe(r, cs, as, links, ris) ==
    [id |-> r.id, title |-> r.title, description |-> r.description,
     instructions |-> r.instructions, cooking_time |-> r.cooking_time,
     difficulty |-> r.difficulty, cuisine_id |-> r.cuisine_id,
     cuisine |-> IF r.cuisine_id \in IdsOf(cs) THEN Some(Row(cs, r.cuisine_id)) ELSE None,
     allergens |-> {a \in as : \E l \in links : l.recipe_id = r.id /\ l.allergen_id = a.id},
     recipe_ingredients |-> {ri \in ris : ri.recipe_id = r.id}]

\* RecipeIngredientRead from a RecipeIngredient (from_attributes): the field
\* ingredient_id is read under its alias, the attribute id of the row.
RecipeIngredientRead(ri) ==
    [id |-> ri.id, quantity |-> ri.quantity, measurement |-> ri.measurement]

\* response_model=RecipeRead: the fields are read as attributes of the returned
\* Recipe; a required field with no such attribute, or a cuisine of None, fails
\* the response's validation (500, after the handler returned).
RecipeReadFields ==
    {"id", "title", "description", "instructions", "cooking_time", "difficulty",
     "cuisine", "allergens", "ingredients"}
RecipeRead(status, obj) ==
    IF RecipeReadFields \subseteq DOMAIN obj /\ obj.cuisine # None
    THEN Response(status, "",
             Some([id |-> obj.id, title |-> obj.title, description |-> obj.description,
                   instructions |-> obj.instructions, cooking_time |-> obj.cooking_time,
                   difficulty |-> obj.difficulty, cuisine |-> EntityRead(obj.cuisine[1]),
                   allergens |-> {EntityRead(a) : a \in obj.allergens},
                   ingredients |-> {RecipeIngredientRead(ri) : ri \in obj.ingredients}]))
    ELSE ServerError("ResponseValidationError")

\* POST /recipes, the whole handler.
RecipeStore(body) ==
    /\ NextId(recipes) <= MaxId
    /\ NextId(recipe_ingredients) - 1 + Len(body.ingredients) <= MaxId * MaxLen
    /\ LET id == NextId(recipes)
           row == NewRecipe(id, body)
           loaded == IF body.allergen_ids # <<>>
                     THEN SelectAllergens(allergens, body.allergen_ids) ELSE {}
           links == NewAllergenLinks(id, loaded)
           ris == NewRecipeIngredients(id, body.ingredients, NextId(recipe_ingredients) - 1)
           reject(r) == resp' = r /\ UNCHANGED <<recipes, recipe_allergens, recipe_ingredients>>
       IN  /\ req' = [op |-> "recipes.store", id |-> id, body |-> body]
           /\ IF ~RecipeCreate(body) THEN reject(HTTPException(422, "ValidationError"))
              ELSE IF CuisineCheck(body) # "" THEN reject(HTTPException(404, CuisineCheck(body)))
              ELSE IF AllergensCheck(body) # "" THEN reject(HTTPException(404, AllergensCheck(body)))
              ELSE IF IngredientsCheck(body) # "" THEN reject(HTTPException(404, IngredientsCheck(body)))
              ELSE IF ~NotNull(row) THEN reject(ServerError("IntegrityError"))
              ELSE IF ExtendAllergens(loaded) # "" THEN reject(ServerError(ExtendAllergens(loaded)))
              ELSE /\ recipes' = recipes \cup {Flushed(row)}
                   /\ recipe_allergens' = recipe_allergens \cup links
                   /\ recipe_ingredients' = recipe_ingredients \cup ris
                   /\ resp' = RecipeRead(201, LoadRecipe(Flushed(row), cuisines, allergens,
                                                         recipe_allergens', recipe_ingredients'))
    /\ UNCHANGED <<cuisines, allergens, ingredients, fkEnforced, tx, mem>>

\* A GET that consumes what it reads: the row is deleted once it has been answered.
RecipeShowAndDelete(id) ==
    /\ req' = [op |-> "recipes.show", id |-> id]
    /\ resp' = IF id \notin IdsOf(recipes)
               THEN HTTPException(404, "Recipe not found")
               ELSE RecipeRead(200, LoadRecipe(Row(recipes, id), cuisines, allergens,
                                               recipe_allergens, recipe_ingredients))
    /\ recipes' = {r \in recipes : r.id # id}
    /\ UNCHANGED <<cuisines, allergens, ingredients, recipe_allergens, recipe_ingredients,
                   fkEnforced, tx, mem>>

\* GET /recipes/{id}
RecipeShow(id) ==
    /\ req' = [op |-> "recipes.show", id |-> id]
    /\ resp' = IF id \notin IdsOf(recipes)
               THEN HTTPException(404, "Recipe not found")
               ELSE RecipeRead(200, LoadRecipe(Row(recipes, id), cuisines, allergens,
                                               recipe_allergens, recipe_ingredients))
    /\ UNCHANGED <<tables, fkEnforced, tx, mem>>

\* The rows in the order of their ids (order_by(Recipe.id)).
RECURSIVE OrderById(_)
OrderById(rows) ==
    IF rows = {} THEN <<>>
    ELSE LET first == CHOOSE r \in rows : \A o \in rows : r.id <= o.id
         IN  <<first>> \o OrderById(rows \ {first})

\* stmt.offset(skip).limit(limit)
OffsetLimit(seq, skip, limit) ==
    SubSeq(seq, skip + 1, IF skip + limit < Len(seq) THEN skip + limit ELSE Len(seq))

\* response_model=list[RecipeRead]: every element is validated as RecipeRead, and
\* one that fails fails the response.
RecipeReadList(objs) ==
    IF \A i \in 1..Len(objs) : RecipeRead(200, objs[i]).status = 200
    THEN Response(200, "", Some([i \in 1..Len(objs) |-> RecipeRead(200, objs[i]).body[1]]))
    ELSE ServerError("ResponseValidationError")

\* The query parameters of GET /recipes: skip and limit around their bounds, the
\* difficulty absent or given.
IndexQueries ==
    {[skip |-> k, limit |-> l, difficulty |-> d] :
        k \in {0, 1}, l \in {1, MaxId}, d \in {None, Some(5)}}
    \cup {[skip |-> 0, limit |-> 0, difficulty |-> None],
          [skip |-> 0, limit |-> 1, difficulty |-> Some(6)]}

\* Query(0, ge=0), Query(10, ge=1, le=100), Query(None, ge=1, le=5)
IndexQuery(q) ==
    /\ q.skip >= 0
    /\ q.limit >= 1 /\ q.limit <= 100
    /\ q.difficulty # None => q.difficulty[1] >= 1 /\ q.difficulty[1] <= 5

\* GET /recipes
RecipeIndex(q) ==
    /\ req' = [op |-> "recipes.index", query |-> q]
    /\ resp' = IF ~IndexQuery(q) THEN HTTPException(422, "ValidationError")
               ELSE LET rows == {r \in recipes :
                                   q.difficulty # None => r.difficulty = q.difficulty[1]}
                        page == OffsetLimit(OrderById(rows), q.skip, q.limit)
                    IN  RecipeReadList([i \in 1..Len(page) |->
                            LoadRecipe(page[i], cuisines, allergens, recipe_allergens,
                                       recipe_ingredients)])
    /\ UNCHANGED <<tables, fkEnforced, tx, mem>>

\* The orders a query without ORDER BY can return the rows in.
Orders(rows) ==
    {seq \in [1..Cardinality(rows) -> rows] : \A i, j \in DOMAIN seq : seq[i] = seq[j] => i = j}

\* GET /ingredients/{id}/recipes: the recipes joined to a RecipeIngredient of the
\* ingredient, each once (distinct), in the order the store returns them.
get_recipes_by_ingredient(id) ==
    /\ req' = [op |-> "ingredients.recipes", id |-> id]
    /\ IF id \notin IdsOf(ingredients)
       THEN resp' = HTTPException(404, "Ingredient not found")
       ELSE \E page \in Orders({r \in recipes : \E ri \in recipe_ingredients :
                                    ri.recipe_id = r.id /\ ri.ingredient_id = id}) :
               resp' = RecipeReadList([i \in 1..Len(page) |->
                           LoadRecipe(page[i], cuisines, allergens, recipe_allergens,
                                      recipe_ingredients)])
    /\ UNCHANGED <<tables, fkEnforced, tx, mem>>

\* Request bodies of PUT /recipes/{id}: the fields that are set, each an Optional.
UpdateBodies ==
    {[cuisine_id |-> Some(c)] : c \in Ids}
    \cup {[difficulty |-> Some(d)] : d \in {0, 1, 5, 6}}
    \cup {[title |-> Some("ab")], [title |-> Some("abc")], [cooking_time |-> Some(0)],
          [instructions |-> Some("Boil wate")]}

\* A schema without constraints.
RecipeUpdateUnconstrained(body) == TRUE

\* RecipeUpdate: the Field constraints of the fields that are set and not None.
RecipeUpdate(body) ==
    /\ "title" \in DOMAIN body /\ body.title # None
          => Len(body.title[1]) >= 3 /\ Len(body.title[1]) <= 100
    /\ "description" \in DOMAIN body /\ body.description # None
          => Len(body.description[1]) <= 500
    /\ "instructions" \in DOMAIN body /\ body.instructions # None
          => Len(body.instructions[1]) >= 10
    /\ "cooking_time" \in DOMAIN body /\ body.cooking_time # None
          => body.cooking_time[1] > 0
    /\ "difficulty" \in DOMAIN body /\ body.difficulty # None
          => body.difficulty[1] >= 1 /\ body.difficulty[1] <= 5

\* A full replacement: a field the request omits goes back to its default.
SetAttrsOrDefault(row, update_data) ==
    [f \in DOMAIN row |->
        IF f \in DOMAIN update_data THEN update_data[f]
        ELSE IF f = "difficulty" THEN Some(1) ELSE Some(row[f])]

\* for field, value in update_data.items(): setattr(recipe, field, value)
SetAttrs(row, update_data) ==
    [f \in DOMAIN row |-> IF f \in DOMAIN update_data THEN update_data[f] ELSE Some(row[f])]

\* PUT /recipes/{id}
RecipeUpdateHandler(id, body) ==
    /\ req' = [op |-> "recipes.update", id |-> id, body |-> body]
    /\ IF ~RecipeUpdate(body)
       THEN resp' = HTTPException(422, "ValidationError") /\ UNCHANGED recipes
       ELSE IF id \notin IdsOf(recipes)
       THEN resp' = HTTPException(404, "Recipe not found") /\ UNCHANGED recipes
       ELSE LET attrs == SetAttrs(Row(recipes, id), body)
            IN  IF ~NotNull(attrs)
                   \/ (fkEnforced /\ ~ForeignKeysResolve({Flushed(attrs)}, {}, {}))
                THEN resp' = ServerError("IntegrityError") /\ UNCHANGED recipes
                ELSE /\ recipes' = (recipes \ {Row(recipes, id)}) \cup {Flushed(attrs)}
                     /\ resp' = RecipeRead(200, LoadRecipe(Flushed(attrs), cuisines, allergens,
                                                           recipe_allergens, recipe_ingredients))
    /\ UNCHANGED <<cuisines, allergens, ingredients, recipe_allergens, recipe_ingredients,
                   fkEnforced, tx, mem>>

\* A relationship without the cascade: the rows stay.
KeepOrphan(ris, recipe_id) == ris

\* Recipe.recipe_ingredients, cascade="all, delete-orphan": the RecipeIngredient
\* rows left when the recipe is deleted.
DeleteOrphan(ris, recipe_id) == {ri \in ris : ri.recipe_id # recipe_id}

\* DELETE /recipes/{id}: the flush deletes the recipe, its recipe_ingredients
\* and its rows of the secondary table.
RecipeDestroy(id) ==
    /\ req' = [op |-> "recipes.destroy", id |-> id]
    /\ IF id \notin IdsOf(recipes)
       THEN /\ resp' = HTTPException(404, "Recipe not found")
            /\ UNCHANGED <<recipes, recipe_allergens, recipe_ingredients>>
       ELSE /\ recipes' = recipes \ {Row(recipes, id)}
            /\ recipe_ingredients' = DeleteOrphan(recipe_ingredients, id)
            /\ recipe_allergens' = {l \in recipe_allergens : l.recipe_id # id}
            /\ resp' = Response(204, "", None)
    /\ UNCHANGED <<cuisines, allergens, ingredients, fkEnforced, tx, mem>>

\* ------------------------------------------- POST /recipes, await by await
\* store gives up control at each await: session.get (98), the two selects (106,
\* 114), flush (129), commit (145) and the reload (157).  Between two of them
\* another request's handler can run to its commit.  tx is the request in flight:
\* its body, what its session has loaded, and the row it has flushed and not
\* committed, which no other session sees.

\* The bodies of the create in flight.
ConcBodies ==
    {RecipeBody(BaseScalars, c, al, ItemsOf(l)) :
        c \in Ids, al \in {<<>>, <<1>>}, l \in {<<>>, <<1>>}}

\* The request ends here: the response, and the session closed (rolled back).
StoreEnds(body, r) ==
    /\ tx' = NoTx
    /\ req' = [op |-> "recipes.store", id |-> NextId(recipes), body |-> body]
    /\ resp' = r

\* cuisine = await session.get(Cuisine, recipe_create.cuisine_id)
StoreGetCuisine(body) ==
    /\ tx.pc = "idle"
    /\ NextId(recipes) <= MaxId
    /\ NextId(recipe_ingredients) - 1 + Len(body.ingredients) <= MaxId * MaxLen
    /\ IF ~RecipeCreate(body)
       THEN StoreEnds(body, HTTPException(422, "ValidationError"))
       ELSE IF CuisineCheck(body) # ""
       THEN StoreEnds(body, HTTPException(404, CuisineCheck(body)))
       ELSE /\ tx' = [pc |-> "allergens", body |-> body]
            /\ UNCHANGED <<req, resp>>
    /\ UNCHANGED <<tables, fkEnforced, mem>>

\* result = await session.scalars(select(Allergen)...)
StoreSelectAllergens ==
    /\ tx.pc = "allergens"
    /\ LET loaded == IF tx.body.allergen_ids # <<>>
                     THEN SelectAllergens(allergens, tx.body.allergen_ids) ELSE {}
       IN  IF AllergensCheck(tx.body) # ""
           THEN StoreEnds(tx.body, HTTPException(404, AllergensCheck(tx.body)))
           ELSE /\ tx' = [pc |-> "ingredients", body |-> tx.body, loaded |-> loaded]
                /\ UNCHANGED <<req, resp>>
    /\ UNCHANGED <<tables, fkEnforced, mem>>

\* result = await session.scalars(select(Ingredient)...)
StoreSelectIngredients ==
    /\ tx.pc = "ingredients"
    /\ IF IngredientsCheck(tx.body) # ""
       THEN StoreEnds(tx.body, HTTPException(404, IngredientsCheck(tx.body)))
       ELSE /\ tx' = [pc |-> "flush", body |-> tx.body, loaded |-> tx.loaded]
            /\ UNCHANGED <<req, resp>>
    /\ UNCHANGED <<tables, fkEnforced, mem>>

\* session.add(recipe); await session.flush(): the INSERT of the recipe, in the
\* session's open transaction; then, with no await between, the extend of the
\* recipe's allergens.
StoreFlush ==
    /\ tx.pc = "flush"
    /\ LET row == NewRecipe(NextId(recipes), tx.body)
       IN  IF ~NotNull(row) \/ (fkEnforced /\ ~ForeignKeysResolve({Flushed(row)}, {}, {}))
           THEN StoreEnds(tx.body, ServerError("IntegrityError"))
           ELSE IF ExtendAllergens(tx.loaded) # ""
           THEN StoreEnds(tx.body, ServerError(ExtendAllergens(tx.loaded)))
           ELSE /\ tx' = [pc |-> "commit", body |-> tx.body, loaded |-> tx.loaded,
                          recipe |-> Flushed(row)]
                /\ UNCHANGED <<req, resp>>
    /\ UNCHANGED <<tables, fkEnforced, mem>>

\* session.add(ri) ...; await session.commit(): the INSERTs of the links and of
\* the RecipeIngredient rows, then the commit of them and of the recipe.
StoreCommit ==
    /\ tx.pc = "commit"
    /\ LET links == NewAllergenLinks(tx.recipe.id, tx.loaded)
           ris == NewRecipeIngredients(tx.recipe.id, tx.body.ingredients,
                                       NextId(recipe_ingredients) - 1)
       IN  IF fkEnforced /\ ~ForeignKeysResolve({tx.recipe}, links, ris)
           THEN /\ StoreEnds(tx.body, ServerError("IntegrityError"))
                /\ UNCHANGED <<recipes, recipe_allergens, recipe_ingredients>>
           ELSE /\ recipes' = recipes \cup {tx.recipe}
                /\ recipe_allergens' = recipe_allergens \cup links
                /\ recipe_ingredients' = recipe_ingredients \cup ris
                /\ tx' = [pc |-> "reload", body |-> tx.body, id |-> tx.recipe.id]
                /\ UNCHANGED <<req, resp>>
    /\ UNCHANGED <<cuisines, allergens, ingredients, fkEnforced, mem>>

\* result = await session.execute(select(Recipe)...); recipe = result.scalar_one()
StoreReload ==
    /\ tx.pc = "reload"
    /\ tx' = NoTx
    /\ req' = [op |-> "recipes.store", id |-> tx.id, body |-> tx.body]
    /\ resp' = IF tx.id \notin IdsOf(recipes)
               THEN ServerError("NoResultFound")
               ELSE RecipeRead(201, LoadRecipe(Row(recipes, tx.id), cuisines, allergens,
                                               recipe_allergens, recipe_ingredients))
    /\ UNCHANGED <<tables, fkEnforced, mem>>

\* ----------------------------------------------------------- specifications

\* One request at a time, each handler from its first line to its response.
Next ==
    \/ \E name \in IngredientNames : IngredientStore(name)
    \/ \E id \in Ids, name \in IngredientNames : IngredientUpdate(id, name)
    \/ \E id \in Ids : IngredientDestroy(id)
    \/ \E name \in AllergenNames : AllergenStore(name)
    \/ \E id \in Ids, name \in AllergenNames : AllergenUpdate(id, name)
    \/ \E id \in Ids : AllergenDestroy(id)
    \/ \E name \in CuisineNames : CuisineStore(name)
    \/ \E id \in Ids, name \in CuisineNames : CuisineUpdate(id, name)
    \/ \E id \in Ids : CuisineDestroy(id)
    \/ \E body \in StoreBodies : RecipeStore(body)
    \/ \E id \in Ids : RecipeShow(id)
    \/ \E q \in IndexQueries : RecipeIndex(q)
    \/ \E id \in Ids : get_recipes_by_ingredient(id)
    \/ \E id \in Ids : IngredientShow(id)
    \/ \E id \in Ids : AllergenShow(id)
    \/ \E id \in Ids, body \in UpdateBodies : RecipeUpdateHandler(id, body)
    \/ \E id \in Ids : RecipeDestroy(id)

Spec == Init /\ [][Next]_vars

\* A Recipe create that other requests interleave with: the handlers of the
\* sources that delete a row a create can reference, and the creates that make
\* those rows.
ConcNext ==
    \/ \E body \in ConcBodies : StoreGetCuisine(body)
    \/ StoreSelectAllergens
    \/ StoreSelectIngredients
    \/ StoreFlush
    \/ StoreCommit
    \/ StoreReload
    \/ \E name \in CuisineNames : CuisineStore(name)
    \/ \E name \in IngredientNames : IngredientStore(name)
    \/ \E id \in Ids : IngredientDestroy(id)
    \/ \E id \in Ids : AllergenDestroy(id)
    \/ \E id \in Ids : RecipeDestroy(id)

ConcSpec == Init /\ [][ConcNext]_vars

\* ---------------------------------------------------------------------------
\* The in-memory recipe store of main.py: recipes_db and recipe_counter, and the
\* handlers main_app registers on /recipes/.  A handler has no await between its
\* first read and its last write of the two globals, so each runs as one step.

\* The ids the counter gives out in the model: a create is taken while the
\* counter is below MaxCounter.
MaxCounter == 3
\* The path ids of the requests.
RecipeIds == 1..MaxCounter
\* The values datetime.now() takes.
Times == {1, 2}

\* The request bodies of POST /recipes/: a valid one, and one with no ingredient.
MainBase ==
    [title |-> "abc", description |-> None, ingredients |-> <<"Tomato">>,
     instructions |-> "Boil water", cooking_time |-> 20, difficulty |-> 1]
CreateBodies == {MainBase, [MainBase EXCEPT !.ingredients = <<>>]}

\* RecipeBase / RecipeCreate: the Field constraints of a request body.
RecipeBase(body) ==
    /\ Len(body.title) >= 3 /\ Len(body.title) <= 100
    /\ body.description # None => Len(body.description[1]) <= 500
    /\ Len(body.ingredients) >= 1
    /\ Len(body.instructions) >= 10
    /\ body.cooking_time > 0
    /\ body.difficulty >= 1 /\ body.difficulty <= 5

\* recipe.model_dump(): the fields of the body, each as the attribute a Recipe
\* keeps (a value, or None).
model_dump(body) ==
    [f \in DOMAIN body |-> IF f = "description" THEN body[f] ELSE Some(body[f])]

\* The request bodies of PUT /recipes/{recipe_id}, as the fields that were set:
\* a difficulty within the bounds, one above them, and an explicit null.
MainUpdateBodies == {[difficulty |-> Some(5)], [difficulty |-> Some(6)], [difficulty |-> None]}

\* RecipeUpdate of main.py: the Field constraints of the fields that are set and
\* not None.
MainRecipeUpdate(body) ==
    /\ "title" \in DOMAIN body /\ body.title # None
          => Len(body.title[1]) >= 3 /\ Len(body.title[1]) <= 100
    /\ "description" \in DOMAIN body /\ body.description # None
          => Len(body.description[1]) <= 500
    /\ "ingredients" \in DOMAIN body /\ body.ingredients # None
          => Len(body.ingredients[1]) >= 1
    /\ "instructions" \in DOMAIN body /\ body.instructions # None
          => Len(body.instructions[1]) >= 10
    /\ "cooking_time" \in DOMAIN body /\ body.cooking_time # None
          => body.cooking_time[1] > 0
    /\ "difficulty" \in DOMAIN body /\ body.difficulty # None
          => body.difficulty[1] >= 1 /\ body.difficulty[1] <= 5

\* Recipe(**recipe_dict) of main.py: the dumped fields with id, created_at and
\* updated_at.
Recipe(recipe_dict, id, created_at, updated_at) ==
    [id |-> id, created_at |-> created_at, updated_at |-> updated_at,
     title |-> recipe_dict.title, description |-> recipe_dict.description,
     ingredients |-> recipe_dict.ingredients, instructions |-> recipe_dict.instructions,
     cooking_time |-> recipe_dict.cooking_time, difficulty |-> recipe_dict.difficulty]

\* response_model=Recipe: the returned object is validated as a Recipe, whose
\* fields other than description are required.
RecipeResponse(status, obj) ==
    IF \A f \in {"title", "ingredients", "instructions", "cooking_time", "difficulty"} :
          obj[f] # None
    THEN Response(status, "", Some(obj))
    ELSE ServerError("ResponseValidationError")

\* A counter that gives out the lowest id not in use, the id of a deleted recipe
\* included.
LowestFreeId == CHOOSE k \in 1..(MaxCounter + 1) :
                    k \notin DOMAIN recipes_db /\ \A j \in 1..(k - 1) : j \in DOMAIN recipes_db

\* recipe_counter += 1
CounterNext == recipe_counter + 1

\* recipes_db[key] = value
SetItem(db, key, value) ==
    [k \in DOMAIN db \cup {key} |-> IF k = key THEN value ELSE db[k]]

\* del recipes_db[key]
DelItem(db, key) == [k \in DOMAIN db \ {key} |-> db[k]]

\* POST /recipes/
create_recipe(body, t1, t2) ==
    /\ req' = [op |-> "create_recipe", body |-> body]
    /\ IF ~RecipeBase(body)
       THEN resp' = HTTPException(422, "ValidationError") /\ UNCHANGED mem
       ELSE /\ recipe_counter < MaxCounter
            /\ recipe_counter' = CounterNext
            /\ LET new_recipe == Recipe(model_dump(body), recipe_counter', t1, t2)
               IN  /\ recipes_db' = SetItem(recipes_db, recipe_counter', new_recipe)
                   /\ resp' = RecipeResponse(201, new_recipe)
    /\ UNCHANGED <<tables, fkEnforced, tx>>

\* The query parameters of GET /recipes/: the defaults, a second page of one, and
\* a difficulty filter.
ListQueries ==
    {[skip |-> 0, limit |-> 10, difficulty |-> None],
     [skip |-> 1, limit |-> 1, difficulty |-> None],
     [skip |-> 0, limit |-> 10, difficulty |-> Some(5)]}

\* list(recipes_db.values()): the values in the order their keys were inserted,
\* which is the order of the keys, as a key is only ever inserted by create_recipe.
RECURSIVE Values(_, _)
Values(db, keys) ==
    IF keys = {} THEN <<>>
    ELSE LET first == CHOOSE k \in keys : \A o \in keys : k <= o
         IN  <<db[first]>> \o Values(db, keys \ {first})

\* [r for r in all_recipes if r.difficulty == difficulty]
RECURSIVE FilterDifficulty(_, _)
FilterDifficulty(seq, difficulty) ==
    IF seq = <<>> THEN <<>>
    ELSE (IF Head(seq).difficulty = difficulty THEN <<Head(seq)>> ELSE <<>>)
         \o FilterDifficulty(Tail(seq), difficulty)

\* all_recipes[skip:skip + limit]
Slice(seq, skip, limit) ==
    SubSeq(seq, skip + 1, IF skip + limit < Len(seq) THEN skip + limit ELSE Len(seq))

\* GET /recipes/
get_all_recipes(q) ==
    /\ req' = [op |-> "get_all_recipes", query |-> q]
    /\ LET all_recipes == Values(recipes_db, DOMAIN recipes_db)
           filtered == IF q.difficulty # None
                       THEN FilterDifficulty(all_recipes, q.difficulty)
                       ELSE all_recipes
           page == Slice(filtered, q.skip, q.limit)
       IN  resp' = IF \A i \in 1..Len(page) : RecipeResponse(200, page[i]).status = 200
                   THEN Response(200, "", Some(page))
                   ELSE ServerError("ResponseValidationError")
    /\ UNCHANGED <<tables, fkEnforced, tx, mem>>

\* GET /recipes/{recipe_id}
get_recipe(recipe_id) ==
    /\ req' = [op |-> "get_recipe", id |-> recipe_id]
    /\ resp' = IF recipe_id \notin DOMAIN recipes_db
               THEN HTTPException(404, "Recipe not found")
               ELSE RecipeResponse(200, recipes_db[recipe_id])
    /\ UNCHANGED <<tables, fkEnforced, tx, mem>>

\* current_recipe.model_copy(update=update_data): a copy with the given fields
\* replaced, without validation.
model_copy(current_recipe, update_data) ==
    [f \in DOMAIN current_recipe |->
        IF f \in DOMAIN update_data THEN update_data[f] ELSE current_recipe[f]]

\* PUT /recipes/{recipe_id}
update_recipe(recipe_id, body, t) ==
    /\ req' = [op |-> "update_recipe", id |-> recipe_id, body |-> body]
    /\ IF ~MainRecipeUpdate(body)
       THEN resp' = HTTPException(422, "ValidationError") /\ UNCHANGED recipes_db
       ELSE IF recipe_id \notin DOMAIN recipes_db
       THEN resp' = HTTPException(404, "Recipe not found") /\ UNCHANGED recipes_db
       ELSE LET updated_recipe ==
                    [model_copy(recipes_db[recipe_id], body) EXCEPT !.updated_at = t]
            IN  /\ recipes_db' = SetItem(recipes_db, recipe_id, updated_recipe)
                /\ resp' = RecipeResponse(200, updated_recipe)
    /\ UNCHANGED <<tables, fkEnforced, tx, recipe_counter>>

\* DELETE /recipes/{recipe_id}
delete_recipe(recipe_id) ==
    /\ req' = [op |-> "delete_recipe", id |-> recipe_id]
    /\ IF recipe_id \notin DOMAIN recipes_db
       THEN resp' = HTTPException(404, "Recipe not found") /\ UNCHANGED recipes_db
       ELSE /\ recipes_db' = DelItem(recipes_db, recipe_id)
            /\ resp' = Response(204, "", None)
    /\ UNCHANGED <<tables, fkEnforced, tx, recipe_counter>>

\* The requests to the in-memory store.  They read and write recipes_db and
\* recipe_counter only, which no handler of the routers touches.
MainNext ==
    \/ \E body \in CreateBodies, t1 \in Times, t2 \in Times : create_recipe(body, t1, t2)
    \/ \E q \in ListQueries : get_all_recipes(q)
    \/ \E recipe_id \in RecipeIds : get_recipe(recipe_id)
    \/ \E recipe_id \in RecipeIds, body \in MainUpdateBodies, t \in Times :
          update_recipe(recipe_id, body, t)
    \/ \E recipe_id \in RecipeIds : delete_recipe(recipe_id)

MainSpec == Init /\ [][MainNext]_vars

\* ------------------------------------------------------------------ claims

RecipeLinks == <<recipes, recipe_allergens, recipe_ingredients>>

\* C1: in every state reachable by Recipe and Cuisine create/update/delete, every
\* persisted Recipe's cuisine_id is the id of a Cuisine that exists.
C1_RecipeCuisineExists == \A r \in recipes : r.cuisine_id \in IdsOf(cuisines)

\* C2: in every state reachable by a sequence of Recipe, Allergen and Ingredient
\* operations, every recipe_allergens row refers to an existing Allergen and every
\* RecipeIngredient row to an existing Ingredient.
C2_LinksResolve ==
    /\ \A l \in recipe_allergens : l.allergen_id \in IdsOf(allergens)
    /\ \A ri \in recipe_ingredients : ri.ingredient_id \in IdsOf(ingredients)

\* A recipe holds both kinds of link and the delete of an ingredient it uses was
\* asked for, and refused by the flush.
C2_Witness ==
    /\ recipe_allergens # {}
    /\ recipe_ingredients # {}
    /\ req.op = "ingredients.destroy"
    /\ resp = ServerError("IntegrityError")

\* C3: when a delete of a row that a Recipe create references commits between the
\* create's existence checks and its commit, no committed Recipe, allergen link or
\* RecipeIngredient refers to the deleted row.
C3_CreateRaceLeavesNoDanglingRow ==
    /\ \A r \in recipes : r.cuisine_id \in IdsOf(cuisines)
    /\ \A l \in recipe_allergens : l.allergen_id \in IdsOf(allergens)
    /\ \A ri \in recipe_ingredients : ri.ingredient_id \in IdsOf(ingredients)

\* The step is a Recipe create whose body passed the schema.
StoreStep == req'.op = "recipes.store" /\ RecipeCreate(req'.body)

\* C4: Recipe create with a cuisine_id of no Cuisine fails with 404 and leaves the
\* Recipe rows, the allergen links and the RecipeIngredient rows as they were.
C4_MissingCuisineRejected ==
    [][(StoreStep /\ req'.body.cuisine_id \notin IdsOf(cuisines))
          => /\ resp' = HTTPException(404, "Cuisine not found")
             /\ UNCHANGED RecipeLinks]_vars

\* A create was refused for its cuisine while a recipe was stored.
C4_Witness ==
    /\ req.op = "recipes.store"
    /\ RecipeCreate(req.body)
    /\ req.body.cuisine_id \notin IdsOf(cuisines)
    /\ resp = HTTPException(404, "Cuisine not found")
    /\ recipes # {}

\* An id of the list is the id of no row of the table.
SomeMissing(ids, table) == \E i \in 1..Len(ids) : ids[i] \notin IdsOf(table)
SomeFound(ids, table) == \E i \in 1..Len(ids) : ids[i] \in IdsOf(table)

\* C5: Recipe create with an existing cuisine_id and a list of allergen ids or of
\* ingredient ids of which one does not exist fails with 404 and adds no Recipe
\* row, no allergen link and no RecipeIngredient row.
C5_MissingLinkRejectsAll ==
    [][(/\ StoreStep
        /\ req'.body.cuisine_id \in IdsOf(cuisines)
        /\ \/ SomeMissing(req'.body.allergen_ids, allergens)
           \/ SomeMissing(IngredientIdsOf(req'.body.ingredients), ingredients))
          => /\ resp'.status = 404
             /\ resp'.detail \in {"One or more allergens not found",
                                  "One or more ingredients not found"}
             /\ UNCHANGED RecipeLinks]_vars

\* A create that named an allergen that exists and one that does not was refused,
\* its ingredients all existing.
C5_Witness ==
    /\ req.op = "recipes.store"
    /\ req.body.cuisine_id \in IdsOf(cuisines)
    /\ SomeMissing(req.body.allergen_ids, allergens)
    /\ SomeFound(req.body.allergen_ids, allergens)
    /\ req.body.ingredients # <<>>
    /\ ~SomeMissing(IngredientIdsOf(req.body.ingredients), ingredients)
    /\ resp = HTTPException(404, "One or more allergens not found")

\* The create handled last committed: its Recipe row is in the table.
StoreCommitted == req.op = "recipes.store" /\ req.id \in IdsOf(recipes)

\* C6: a Recipe create that succeeded answers 201 with the Recipe: its cuisine is
\* the Cuisine of the requested cuisine_id, its allergens are exactly the requested
\* Allergens, and its ingredients are one entry per entry of the request, with
\* that entry's ingredient id, quantity and measurement.
C6_CreateResponseMatchesRequest ==
    StoreCommitted =>
        /\ resp.status = 201
        /\ resp.body # None
        /\ LET out == resp.body[1]
               items == req.body.ingredients
           IN  /\ out.cuisine \in {EntityRead(c) : c \in {x \in cuisines : x.id = req.body.cuisine_id}}
               /\ out.allergens =
                     {EntityRead(a) : a \in {x \in allergens : x.id \in Range(req.body.allergen_ids)}}
               /\ Cardinality(out.ingredients) = Len(items)
               /\ \E f \in [1..Len(items) -> out.ingredients] :
                     /\ \A i, j \in 1..Len(items) : f[i] = f[j] => i = j
                     /\ \A i \in 1..Len(items) :
                           /\ f[i].id = items[i].ingredient_id
                           /\ f[i].quantity = items[i].quantity
                           /\ f[i].measurement = items[i].measurement

\* C7: the get of the recipe a create has just stored, with no request between
\* the two, succeeds and returns the content the create returned.
C7_GetAfterCreateReturnsSame ==
    [][(StoreCommitted /\ req'.op = "recipes.show" /\ req'.id = req.id)
          => /\ resp'.status = 200
             /\ resp'.body # None
             /\ resp'.body = resp.body]_vars

\* Two entries of the list carry the same ingredient id.
RepeatsIngredient(items) ==
    \E i, j \in 1..Len(items) : i < j /\ items[i].ingredient_id = items[j].ingredient_id

\* C8: a Recipe create whose ingredients list names an existing ingredient in more
\* than one entry, and that is otherwise acceptable, is not refused, and it stores
\* one RecipeIngredient row per entry of the list.
C8_DuplicateIngredientsAccepted ==
    [][(/\ StoreStep
        /\ req'.body.description # None
        /\ req'.body.cuisine_id \in IdsOf(cuisines)
        /\ req'.body.allergen_ids = <<>>
        /\ RepeatsIngredient(req'.body.ingredients)
        /\ ~SomeMissing(IngredientIdsOf(req'.body.ingredients), ingredients))
          => /\ resp'.status \notin {404, 422}
             /\ Cardinality({ri \in recipe_ingredients' : ri.recipe_id = req'.id})
                   = Len(req'.body.ingredients)]_vars

\* C9: a Recipe create with an existing cuisine and a non-empty allergen_ids list
\* is refused for its allergens exactly when an id of the list is the id of no
\* Allergen, and with all of them existing, and the request otherwise acceptable,
\* it stores the recipe.
C9_AllergenNotFoundIffMissing ==
    [][(/\ StoreStep
        /\ req'.body.cuisine_id \in IdsOf(cuisines)
        /\ req'.body.allergen_ids # <<>>)
          => /\ resp' = HTTPException(404, "One or more allergens not found")
                   <=> SomeMissing(req'.body.allergen_ids, allergens)
             /\ (/\ ~SomeMissing(req'.body.allergen_ids, allergens)
                 /\ ~SomeMissing(IngredientIdsOf(req'.body.ingredients), ingredients)
                 /\ ~RepeatsIngredient(req'.body.ingredients)
                 /\ req'.body.description # None)
                   => req'.id \in IdsOf(recipes')]_vars

\* C10: the delete of an existing Recipe answers 204, removes the Recipe row, its
\* RecipeIngredient rows and its allergen links, and leaves the Cuisine, Allergen
\* and Ingredient rows and the rows of the other recipes as they were.
C10_RecipeDeleteFrame ==
    [][(req'.op = "recipes.destroy" /\ req'.id \in IdsOf(recipes))
          => /\ resp'.status = 204
             /\ recipes' = {r \in recipes : r.id # req'.id}
             /\ recipe_ingredients' = {ri \in recipe_ingredients : ri.recipe_id # req'.id}
             /\ recipe_allergens' = {l \in recipe_allergens : l.recipe_id # req'.id}
             /\ UNCHANGED <<cuisines, allergens, ingredients>>]_vars

\* Recipe 1 has been deleted and its RecipeIngredient row 1 with it, while recipe 2
\* keeps its RecipeIngredient row 2; no link of recipe 1 is left.
C10_Witness ==
    /\ req = [op |-> "recipes.destroy", id |-> 1]
    /\ resp.status = 204
    /\ IdsOf(recipes) = {2}
    /\ IdsOf(recipe_ingredients) = {2}
    /\ \A ri \in recipe_ingredients : ri.recipe_id = 2
    /\ recipe_allergens = {}

\* The step is a Recipe update that names a stored recipe.
UpdateStep == req'.op = "recipes.update" /\ req'.id \in IdsOf(recipes)

\* C11: a Recipe update of an existing recipe keeps the recipe, keeps the value
\* of every field the request omits, and leaves the other recipes, the allergen
\* links, the RecipeIngredient rows and the other tables as they were.
C11_UpdateChangesOnlySupplied ==
    [][UpdateStep
          => /\ req'.id \in IdsOf(recipes')
             /\ \A f \in DOMAIN Row(recipes, req'.id) \ DOMAIN req'.body :
                   Row(recipes', req'.id)[f] = Row(recipes, req'.id)[f]
             /\ {r \in recipes' : r.id # req'.id} = {r \in recipes : r.id # req'.id}
             /\ UNCHANGED <<recipe_allergens, recipe_ingredients, cuisines, allergens,
                            ingredients>>]_vars

\* An update that supplied only the difficulty has written it to a recipe that
\* has RecipeIngredient rows and a cuisine.
C11_Witness ==
    /\ req.op = "recipes.update"
    /\ req.body = [difficulty |-> Some(5)]
    /\ req.id \in IdsOf(recipes)
    /\ Row(recipes, req.id).difficulty = 5
    /\ Row(recipes, req.id).title = "abc"
    /\ \E ri \in recipe_ingredients : ri.recipe_id = req.id

\* The ids of the recipes a list query matches, and of those, the ones at the
\* positions skip+1 .. skip+limit in ascending order of id.
Matching(q) ==
    {r.id : r \in {x \in recipes : q.difficulty # None => x.difficulty = q.difficulty[1]}}
PageIds(q) ==
    {id \in Matching(q) :
        LET rank == Cardinality({j \in Matching(q) : j <= id})
        IN  rank > q.skip /\ rank <= q.skip + q.limit}

\* C12: the Recipe list with valid skip, limit and difficulty answers 200 with
\* the recipes at positions skip .. skip+limit-1 of the persisted recipes of that
\* difficulty in ascending order of id, at most limit of them, and changes no
\* table.
C12_ListReturnsPage ==
    [][(req'.op = "recipes.index" /\ IndexQuery(req'.query))
          => /\ resp'.status = 200
             /\ resp'.body # None
             /\ LET out == resp'.body[1]
                IN  /\ Len(out) <= req'.query.limit
                    /\ {out[i].id : i \in 1..Len(out)} = PageIds(req'.query)
                    /\ \A i, j \in 1..Len(out) : i < j => out[i].id < out[j].id
             /\ UNCHANGED tables]_vars

\* C13: the list of the recipes of an ingredient answers 404 when the ingredient
\* does not exist, and otherwise 200 with the recipes that have a RecipeIngredient
\* row of the ingredient, each once; it changes no table.
C13_RecipesByIngredient ==
    [][req'.op = "ingredients.recipes"
          => /\ IF req'.id \notin IdsOf(ingredients)
                THEN resp' = HTTPException(404, "Ingredient not found")
                ELSE /\ resp'.status = 200
                     /\ resp'.body # None
                     /\ LET out == resp'.body[1]
                        IN  /\ {out[i].id : i \in 1..Len(out)} =
                                  {ri.recipe_id : ri \in {x \in recipe_ingredients :
                                                             x.ingredient_id = req'.id}}
                            /\ \A i, j \in 1..Len(out) : out[i].id = out[j].id => i = j
             /\ UNCHANGED tables]_vars

\* The create of a simple entity with a name does what the service specifies: 409
\* and the table as it was when the name is taken, else 201 with the one new row,
\* under an id no row had.
CreatesOrConflicts(before, after) ==
    IF \E row \in before : row.name = req'.name
    THEN resp'.status = 409 /\ after = before
    ELSE /\ resp'.status = 201
         /\ \E row \in after :
               /\ row.name = req'.name
               /\ row.id \notin IdsOf(before)
               /\ after = before \cup {row}
               /\ resp'.body = Some(EntityRead(row))

\* C14: the create of an Ingredient or of an Allergen with a name that is taken
\* answers 409 and changes nothing; with a free name it inserts one entity and
\* answers 201 with it and its new id.
C14_CreateConflictsOnTakenName ==
    [][/\ req'.op = "ingredients.store" => CreatesOrConflicts(ingredients, ingredients')
       /\ req'.op = "allergens.store" => CreatesOrConflicts(allergens, allergens')]_vars

ByIdContract(collection, before, after) ==
    req'.op \in {collection \o ".show", collection \o ".update", collection \o ".destroy"}
       => IF req'.id \notin IdsOf(before)
          THEN resp'.status = 404 /\ UNCHANGED tables
          ELSE /\ req'.op = collection \o ".show"
                  => /\ resp'.status = 200
                     /\ resp'.body # None
                     /\ resp'.body[1].id = req'.id
               /\ req'.op = collection \o ".update"
                  => /\ resp'.status = 200
                     /\ resp'.body # None
                     /\ resp'.body[1].id = req'.id
               /\ req'.op = collection \o ".destroy"
                  => /\ resp'.status = 204
                     /\ req'.id \notin IdsOf(after)

\* C16: in each of the collections allergens, ingredients and recipes, get,
\* update (with a valid body, and for an ingredient a name no other has) and
\* delete (for an ingredient, one no recipe uses) fail with 404 and change nothing
\* when the id is absent, and answer 200, 200 and 204 when it is present.
C16_ByIdOperations ==
    [][/\ ByIdContract("allergens", allergens, allergens')
       /\ (req'.op = "recipes.update" => RecipeUpdate(req'.body))
             => ByIdContract("recipes", recipes, recipes')
       /\ (/\ req'.op = "ingredients.update"
              => ~\E g \in ingredients : g.id # req'.id /\ g.name = req'.name
           /\ req'.op = "ingredients.destroy"
              => ~\E ri \in recipe_ingredients : ri.ingredient_id = req'.id)
             => ByIdContract("ingredients", ingredients, ingredients')]_vars

\* The step is the delete of a stored Ingredient.
IngredientDeleteStep == req'.op = "ingredients.destroy" /\ req'.id \in IdsOf(ingredients)

C18_CreateCommitsAllOrNothing ==
    [][/\ \A r \in recipes' \ recipes :
             /\ tx.pc = "commit"
             /\ r.id = tx.recipe.id
             /\ Cardinality({ri \in recipe_ingredients' : ri.recipe_id = r.id})
                   = Len(tx.body.ingredients)
             /\ \A i \in 1..Len(tx.body.ingredients) :
                   \E ri \in recipe_ingredients' :
                      /\ ri.recipe_id = r.id
                      /\ ri.ingredient_id = tx.body.ingredients[i].ingredient_id
                      /\ ri.quantity = tx.body.ingredients[i].quantity
                      /\ ri.measurement = tx.body.ingredients[i].measurement
             /\ {l.allergen_id : l \in {x \in recipe_allergens' : x.recipe_id = r.id}}
                   = Range(tx.body.allergen_ids)
       /\ \A ri \in recipe_ingredients' \ recipe_ingredients :
             \E r \in recipes' \ recipes : ri.recipe_id = r.id
       /\ \A l \in recipe_allergens' \ recipe_allergens :
             \E r \in recipes' \ recipes : l.recipe_id = r.id]_vars

\* The create in flight has committed a recipe with a RecipeIngredient row and
\* has not answered yet.
C18_Witness ==
    /\ tx.pc = "reload"
    /\ tx.id \in IdsOf(recipes)
    /\ tx.body.ingredients # <<>>
    /\ \E ri \in recipe_ingredients : ri.recipe_id = tx.id

\* The constraints of the scalar fields, on the values a request supplies
\* (given as a function from the names of the supplied fields).
WithinBounds(supplied) ==
    /\ "title" \in DOMAIN supplied
          => Len(supplied.title) >= 3 /\ Len(supplied.title) <= 100
    /\ "instructions" \in DOMAIN supplied => Len(supplied.instructions) >= 10
    /\ "cooking_time" \in DOMAIN supplied => supplied.cooking_time > 0
    /\ "difficulty" \in DOMAIN supplied
          => supplied.difficulty >= 1 /\ supplied.difficulty <= 5
ScalarFields == {"title", "instructions", "cooking_time", "difficulty"}
SuppliedToStore(body) == [f \in ScalarFields |-> body[f]]
SuppliedToUpdate(body) == [f \in DOMAIN body \cap ScalarFields |-> body[f][1]]
PersistedWithinBounds(rs) == \A r \in rs : WithinBounds(SuppliedToStore(r))

\* C19: a Recipe create or update with a scalar field outside its bounds
\* (difficulty 0 or 6, a title of 2 characters, cooking_time 0, instructions of 9
\* characters) is rejected with 422 and changes nothing; with the fields within
\* their bounds (difficulty 1 or 5, a title of 3 characters) it is not rejected,
\* and where nothing else stands in the way the values are stored; every stored
\* Recipe is within the bounds.
C19_FieldBounds ==
    [][/\ req'.op = "recipes.store"
             => IF ~WithinBounds(SuppliedToStore(req'.body))
                THEN resp'.status = 422 /\ UNCHANGED tables
                ELSE (/\ req'.body.ingredients = <<>> /\ req'.body.allergen_ids = <<>>
                      /\ req'.body.description # None
                      /\ req'.body.cuisine_id \in IdsOf(cuisines))
                        => /\ resp'.status # 422
                           /\ \E r \in recipes' \ recipes :
                                 SuppliedToStore(r) = SuppliedToStore(req'.body)
       /\ req'.op = "recipes.update"
             => IF ~WithinBounds(SuppliedToUpdate(req'.body))
                THEN resp'.status = 422 /\ UNCHANGED tables
                ELSE (req'.id \in IdsOf(recipes) /\ DOMAIN req'.body \subseteq ScalarFields)
                        => /\ resp'.status # 422
                           /\ \A f \in DOMAIN req'.body :
                                 Row(recipes', req'.id)[f] = req'.body[f][1]
       /\ recipes' # recipes => PersistedWithinBounds(recipes')]_vars

\* An update to difficulty 6 was rejected for a recipe that an earlier request
\* had given the difficulty 5.
C19_Witness ==
    /\ req.op = "recipes.update"
    /\ req.body = [difficulty |-> Some(6)]
    /\ resp.status = 422
    /\ req.id \in IdsOf(recipes)
    /\ Row(recipes, req.id).difficulty = 5

\* An entry of the list has a measurement that is no value of MeasurementEnum.
OutsideEnum(items) == \E i \in 1..Len(items) : items[i].measurement \notin MeasurementEnum

\* C20: a Recipe create with an ingredient entry whose measurement is no value of
\* MeasurementEnum is rejected with 422 and changes nothing, and every stored
\* RecipeIngredient row has a measurement of MeasurementEnum.
C20_MeasurementInEnum ==
    [][/\ (req'.op = "recipes.store" /\ OutsideEnum(req'.body.ingredients))
             => resp'.status = 422 /\ UNCHANGED tables
       /\ recipe_ingredients' # recipe_ingredients
             => \A ri \in recipe_ingredients' : ri.measurement \in MeasurementEnum]_vars

\* A create whose only fault is a measurement outside the set was rejected, while
\* a row with a value of the set is stored.
C20_Witness ==
    /\ req.op = "recipes.store"
    /\ OutsideEnum(req.body.ingredients)
    /\ req.body.cuisine_id \in IdsOf(cuisines)
    /\ \A i \in 1..Len(req.body.ingredients) :
          req.body.ingredients[i].ingredient_id \in IdsOf(ingredients)
    /\ resp.status = 422
    /\ \E ri \in recipe_ingredients : ri.measurement \in MeasurementEnum


MinimalStoreStep ==
    /\ StoreStep
    /\ req'.body.cuisine_id \in IdsOf(cuisines)
    /\ req'.body.allergen_ids = <<>>
    /\ req'.body.ingredients = <<>>

\* C22: Recipe create with an existing cuisine_id, an empty allergen_ids list and an
\* empty ingredients list goes through: exactly one Recipe row is added, it carries the
\* new id, and no allergen link and no RecipeIngredient row is added with it.
C22_MinimalCreatePersistsOneRow ==
    [][MinimalStoreStep
          => /\ \E r \in recipes' : /\ r \notin recipes
                                    /\ r.id = req'.id
                                    /\ recipes' = recipes \cup {r}
             /\ recipe_allergens' = recipe_allergens
             /\ recipe_ingredients' = recipe_ingredients]_vars

\* C23: in the in-memory store of main.py, after any sequence of create, update and
\* delete requests every key k of recipes_db maps to a recipe whose id is k, every key
\* is between 1 and recipe_counter, recipe_counter never decreases, and a key that a
\* request adds is above every id given out before, so the id of a deleted recipe is
\* never given to a recipe created later.
C23_InMemoryIdsStable ==
    [][/\ \A k \in DOMAIN recipes_db : k >= 1 /\ k <= recipe_counter
       /\ \A k \in DOMAIN recipes_db' : /\ recipes_db'[k].id = k
                                        /\ k >= 1
                                        /\ k <= recipe_counter'
       /\ recipe_counter' >= recipe_counter
       /\ \A k \in DOMAIN recipes_db' \ DOMAIN recipes_db : k > recipe_counter]_vars

\* A recipe was created after an earlier one had been deleted and another updated.
C23_Witness ==
    /\ req.op = "create_recipe"
    /\ resp.status = 201
    /\ recipe_counter = 3
    /\ DOMAIN recipes_db = {1, 3}
    /\ recipes_db[1].difficulty = Some(5)
=============================================================================
